---- MODULE Spec2Model ----
(***************************************************************************)
(* Model of internal/binlog/binlog.go: BinarySearchBinlogs, the binary     *)
(* search over the ordered list of binlog files that uses the time range   *)
(* extracted by GetTimeRangeForBinlog as its predicate.                    *)
(*                                                                         *)
(* File names are numbered: name k stands for the k-th binlog file of the  *)
(* server (mysql-bin.00000k) and NoFile stands for the empty string.       *)
(* Timestamps are whole seconds (time.Unix(ts, 0)), compared as integers.  *)
(* Indices into binlogFiles are 0-based as in the source.                  *)
(***************************************************************************)
EXTENDS Integers, Sequences, FiniteSets, TLC

\* ---------------------------------------------------------------- bounds
MaxFiles == 23
MaxStride == 3
MaxWidth == 2
MaxDup == 2

\* the empty string returned for "no binlog file"
NoFile == 0

\* errorCount > 3 stops the search
MaxErrors == 3

VARIABLES
    binlogFiles,   \* argument: the list of binlog file names
    targetTime,    \* argument: the timestamp searched for
    layout,        \* the server's binlogs: the time range of every file
    pc,            \* position in BinarySearchBinlogs
    left, right,   \* bounds of the binary search
    errorCount,    \* failed extractions so far
    validFiles,    \* set of files checked successfully
    timeRanges,    \* map file name -> [start, end]
    probes,        \* history: every lookup of a file's range, in order
    result,        \* the returned (file, exactMatch)
    \* ---- one call of GetTimeRangeForBinlog(syncer, binlogFile)
    binlogFile,    \* argument: the file whose range is extracted
    syncer,        \* argument: the BinlogSyncer, "new", "syncing", "failed", "closed"
    xpc,           \* position of the function
    deadline,      \* the 5 s timer of ctx: "no", or fired "early" / "late"
    fi,            \* the counter i of the first loop
    ev,            \* the event the first loop got from streamer.GetEvent
    firstTimestamp,
    foundTimestamp,
    lastTimestamp, \* shared with the reading goroutine
    gpc,           \* position of the goroutine of lines 127-147
    gi,            \* its counter i
    gev,           \* the timestamp of the event it got and has not stored yet
    ret,           \* the returned (start, end, err)
    reads,         \* history: events read in the current phase
    seen,          \* history: last non-zero timestamp read in the current phase
    logged,        \* history: rotations logged in the first phase
    rotated        \* history: a rotate event naming another file was read:
                   \* "no", "this" (it is the event last read) or "before"

searchVars == <<binlogFiles, targetTime, layout, pc, left, right, errorCount,
                validFiles, timeRanges, probes, result>>

xvars == <<binlogFile, syncer, xpc, deadline, fi, ev, firstTimestamp,
           foundTimestamp, lastTimestamp, gpc, gi, gev, ret, reads, seen,
           logged, rotated>>

vars == <<binlogFiles, targetTime, layout, pc, left, right, errorCount,
          validFiles, timeRanges, probes, result,
          binlogFile, syncer, xpc, deadline, fi, ev, firstTimestamp,
          foundTimestamp, lastTimestamp, gpc, gi, gev, ret, reads, seen,
          logged, rotated>>

\* ------------------------------------------------------------ time.Time
Before(a, b) == a < b
After(a, b) == a > b

\* --------------------------------------------------------- the server
\* The range GetTimeRangeForBinlog returns for file f when it succeeds.
\* stride > width: disjoint ranges; stride = width: consecutive files share
\* one second; stride < width: overlapping ranges.
ServerRange(f) ==
    [start |-> 1 + layout.stride * (f - 1),
     end   |-> 1 + layout.stride * (f - 1) + layout.width]

\* Outcomes of one call of GetTimeRangeForBinlog(syncer, f): an error
\* (stream open failure, read error, timeout or no timestamp in the first
\* phase) or the file's range.
ExtractOutcomes(f) ==
    { [ok |-> FALSE, start |-> 0, end |-> 0],
      [ok |-> TRUE, start |-> ServerRange(f).start, end |-> ServerRange(f).end] }

\* ------------------------------------------------------------ helpers
File(i) == binlogFiles[i + 1]

Files == { binlogFiles[i] : i \in DOMAIN binlogFiles }

Mid == left + ((right - left) \div 2)

\* slips in the containment test: start excluded; end not tested; || for &&
InRangeOpenStart(t, r) == After(t, r.start) /\ ~After(t, r.end)
InRangeNoEnd(t, r) == ~Before(t, r.start)
InRangeEither(t, r) == ~Before(t, r.start) \/ ~After(t, r.end)

\* !targetTime.Before(start) && !targetTime.After(end)
InRange(t, r) == ~Before(t, r.start) /\ ~After(t, r.end)

\* the file names of a list of n files; dup > 0 repeats name dup at index dup
FileList(n, dup) ==
    [i \in 1..n |-> IF dup > 0 /\ i = dup + 1 THEN dup ELSE i]

\* the targets tried: from before the first file to after the last one
LastTime ==
    IF Len(binlogFiles) = 0 THEN 1 ELSE ServerRange(Len(binlogFiles)).end + 1

\* no event
NoEvent == [type |-> "none", next |-> NoFile, ts |-> 0]

\* no value returned yet
NoRet == [err |-> "nil", start |-> 0, end |-> 0]

\* the state of GetTimeRangeForBinlog while it is not followed step by step
NoCall ==
    /\ binlogFile = NoFile
    /\ syncer = "new"
    /\ xpc = "idle"
    /\ deadline = "no"
    /\ fi = 0
    /\ ev = NoEvent
    /\ firstTimestamp = 0
    /\ foundTimestamp = FALSE
    /\ lastTimestamp = 0
    /\ gpc = "none"
    /\ gi = 0
    /\ gev = 0
    /\ ret = NoRet
    /\ reads = 0
    /\ seen = 0
    /\ logged = 0
    /\ rotated = "no"

Init ==
    /\ \E n \in 0..MaxFiles, dup \in 0..MaxDup :
          /\ dup = 0 \/ dup < n
          /\ binlogFiles = FileList(n, dup)
    /\ layout \in [stride : 0..MaxStride, width : 0..MaxWidth]
    /\ targetTime \in 0..LastTime
    /\ pc = "entry"
    /\ left = 0
    /\ right = 0
    /\ errorCount = 0
    /\ validFiles = {}
    /\ timeRanges = <<>>
    /\ probes = <<>>
    /\ result = [file |-> NoFile, exactMatch |-> FALSE]
    /\ NoCall

\* ------------------------------------------------------------ actions
Return(f, exact) ==
    /\ result' = [file |-> f, exactMatch |-> exact]
    /\ pc' = "done"

Probe(f, extracted, o) ==
    [file |-> f, index |-> IF pc = "entry" THEN 0 ELSE Mid,
     extracted |-> extracted, ok |-> o.ok,
     start |-> o.start, end |-> o.end]

\* slip: the empty list reported as a match
ReturnNoFilesExact ==
    /\ pc = "entry"
    /\ Len(binlogFiles) = 0
    /\ Return(NoFile, TRUE)
    /\ UNCHANGED <<binlogFiles, targetTime, layout, left, right, errorCount,
                   validFiles, timeRanges, probes>>
    /\ UNCHANGED xvars

\* if len(binlogFiles) == 0 { return "", false }
ReturnNoFiles ==
    /\ pc = "entry"
    /\ Len(binlogFiles) = 0
    /\ Return(NoFile, FALSE)
    /\ UNCHANGED <<binlogFiles, targetTime, layout, left, right, errorCount,
                   validFiles, timeRanges, probes>>
    /\ UNCHANGED xvars

\* if len(binlogFiles) == 1 { ... }
SingleFile ==
    /\ pc = "entry"
    /\ Len(binlogFiles) = 1
    /\ \E o \in ExtractOutcomes(File(0)) :
          /\ probes' = Append(probes, Probe(File(0), TRUE, o))
          /\ IF ~o.ok
               THEN /\ Return(File(0), FALSE)
                    /\ UNCHANGED <<validFiles, timeRanges>>
               ELSE /\ validFiles' = validFiles \cup {File(0)}
                    /\ timeRanges' = (File(0) :> [start |-> o.start, end |-> o.end])
                                        @@ timeRanges
                    /\ Return(File(0), InRange(targetTime, o))
    /\ UNCHANGED <<binlogFiles, targetTime, layout, left, right, errorCount>>
    /\ UNCHANGED xvars

\* left, right := 0, len(binlogFiles)-1; var errorCount int
StartSearch ==
    /\ pc = "entry"
    /\ Len(binlogFiles) >= 2
    /\ left' = 0
    /\ right' = Len(binlogFiles) - 1
    /\ errorCount' = 0
    /\ pc' = "loop"
    /\ UNCHANGED <<binlogFiles, targetTime, layout, validFiles, timeRanges,
                   probes, result>>
    /\ UNCHANGED xvars

\* the loop condition, tested after an iteration that did not return
LoopPc(l, r) == IF l <= r THEN "loop" ELSE "fallback"

\* slip: the right bound moves down by one instead of below mid
CompareLinear(r) ==
    IF InRange(targetTime, r)
      THEN /\ Return(File(Mid), TRUE)
           /\ UNCHANGED <<left, right>>
      ELSE IF Before(targetTime, r.start)
             THEN /\ right' = right - 1
                  /\ pc' = LoopPc(left, right - 1)
                  /\ UNCHANGED <<left, result>>
             ELSE /\ left' = Mid + 1
                  /\ pc' = LoopPc(Mid + 1, right)
                  /\ UNCHANGED <<right, result>>

\* the comparison of the target with the range of binlogFiles[mid]
Compare(r) ==
    IF InRange(targetTime, r)
      THEN /\ Return(File(Mid), TRUE)
           /\ UNCHANGED <<left, right>>
      ELSE IF Before(targetTime, r.start)
             THEN /\ right' = Mid - 1
                  /\ pc' = LoopPc(left, Mid - 1)
                  /\ UNCHANGED <<left, result>>
             ELSE /\ left' = Mid + 1
                  /\ pc' = LoopPc(Mid + 1, right)
                  /\ UNCHANGED <<right, result>>

\* slips: the limit is crossed one failure late; one failure early
TooManyErrorsLate(c) == c > MaxErrors + 1
TooManyErrorsEarly(c) == c >= MaxErrors

\* if errorCount > 3 { break }
TooManyErrors(c) == c > MaxErrors

\* one iteration whose extraction fails
ProbeError ==
    /\ pc = "loop"
    /\ File(Mid) \notin DOMAIN timeRanges
    /\ \E o \in ExtractOutcomes(File(Mid)) :
          /\ ~o.ok
          /\ probes' = Append(probes, Probe(File(Mid), TRUE, o))
    /\ errorCount' = errorCount + 1
    /\ IF TooManyErrors(errorCount + 1)
         THEN /\ pc' = "fallback"
              /\ UNCHANGED <<left, right>>
         ELSE IF Mid > 0
                THEN /\ right' = Mid - 1
                     /\ pc' = LoopPc(left, Mid - 1)
                     /\ UNCHANGED left
                ELSE /\ left' = Mid + 1
                     /\ pc' = LoopPc(Mid + 1, right)
                     /\ UNCHANGED right
    /\ UNCHANGED <<binlogFiles, targetTime, layout, validFiles, timeRanges,
                   result>>
    /\ UNCHANGED xvars

\* slip: the extracted range is not entered into timeRanges
ProbeExtractNoStore ==
    /\ pc = "loop"
    /\ File(Mid) \notin DOMAIN timeRanges
    /\ \E o \in ExtractOutcomes(File(Mid)) :
          /\ o.ok
          /\ probes' = Append(probes, Probe(File(Mid), TRUE, o))
          /\ Compare(o)
    /\ UNCHANGED <<binlogFiles, targetTime, layout, errorCount, validFiles,
                   timeRanges>>
    /\ UNCHANGED xvars

\* one iteration whose extraction succeeds
ProbeExtract ==
    /\ pc = "loop"
    /\ File(Mid) \notin DOMAIN timeRanges
    /\ \E o \in ExtractOutcomes(File(Mid)) :
          /\ o.ok
          /\ probes' = Append(probes, Probe(File(Mid), TRUE, o))
          /\ validFiles' = validFiles \cup {File(Mid)}
          /\ timeRanges' = (File(Mid) :> [start |-> o.start, end |-> o.end])
                              @@ timeRanges
          /\ Compare(o)
    /\ UNCHANGED <<binlogFiles, targetTime, layout, errorCount>>
    /\ UNCHANGED xvars

\* one iteration on a file whose range is already in timeRanges
ProbeCached ==
    /\ pc = "loop"
    /\ File(Mid) \in DOMAIN timeRanges
    /\ probes' = Append(probes,
                    Probe(File(Mid), FALSE,
                          [ok |-> TRUE, start |-> timeRanges[File(Mid)].start,
                           end |-> timeRanges[File(Mid)].end]))
    /\ Compare(timeRanges[File(Mid)])
    /\ UNCHANGED <<binlogFiles, targetTime, layout, errorCount, validFiles,
                   timeRanges>>
    /\ UNCHANGED xvars

\* slip: the earliest end is kept instead of the latest
ClosestEarliest ==
    { f \in validFiles :
        /\ ~Before(targetTime, timeRanges[f].end)
        /\ \A g \in validFiles :
              ~Before(targetTime, timeRanges[g].end)
                 => ~Before(timeRanges[g].end, timeRanges[f].end) }

\* slip: the test that the file ends at or before the target is missing
ClosestAnyEnd ==
    { f \in validFiles :
        \A g \in validFiles : ~After(timeRanges[g].end, timeRanges[f].end) }

\* The valid files the loop over validFiles can end on: those ending at or
\* before the target that no other such file ends strictly after.  The map
\* is iterated in an unspecified order and the first file seen among these
\* is kept.
Closest ==
    { f \in validFiles :
        /\ ~Before(targetTime, timeRanges[f].end)
        /\ \A g \in validFiles :
              ~Before(targetTime, timeRanges[g].end)
                 => ~After(timeRanges[g].end, timeRanges[f].end) }

\* slips: the last file as the default; no default at all
DefaultFileLast ==
    IF Len(binlogFiles) > 0 THEN File(Len(binlogFiles) - 1) ELSE NoFile
DefaultFileNone == NoFile

\* if len(binlogFiles) > 0 { return binlogFiles[0], false }; return "", false
DefaultFile == IF Len(binlogFiles) > 0 THEN File(0) ELSE NoFile

\* the code after the loop
Fallback ==
    /\ pc = "fallback"
    /\ IF Cardinality(validFiles) > 0 /\ Closest # {}
         THEN \E f \in Closest : Return(f, FALSE)
         ELSE Return(DefaultFile, FALSE)
    /\ UNCHANGED <<binlogFiles, targetTime, layout, left, right, errorCount,
                   validFiles, timeRanges, probes>>
    /\ UNCHANGED xvars

Next ==
    \/ ReturnNoFiles
    \/ SingleFile
    \/ StartSearch
    \/ ProbeError
    \/ ProbeExtract
    \/ ProbeCached
    \/ Fallback

Spec == Init /\ [][Next]_vars

\* BinarySearchBinlogs is sequential code: it keeps executing until it
\* returns (every extraction it calls returns, see SpecXFair).
FairSearch == WF_vars(Next)

SpecFair == Spec /\ FairSearch

\* ----------------------------------------------- GetTimeRangeForBinlog
\* The function followed step by step: the calling goroutine (xpc), the
\* goroutine it starts to read the rest of the stream (gpc) and the timer of
\* context.WithTimeout (deadline).  The server's stream is the environment:
\* streamer.GetEvent(ctx) hands over any event, or a stream error, or, once
\* ctx is done, the context's error; a read with no event pending stays
\* blocked.

\* largest header timestamp delivered by the stream (0 is "no timestamp")
MaxTs == 2

\* for i := 0; i < 10; i++
FirstAttempts == 10

\* for i := 0; i < 1000; i++
MaxEvents == 1000

\* the events the stream can deliver: any event with its header timestamp,
\* among them rotate events naming this file or the following one
Events ==
    [type : {"QUERY_EVENT"}, next : {NoFile}, ts : 0..MaxTs]
       \cup [type : {"ROTATE_EVENT"}, next : {binlogFile, binlogFile + 1},
             ts : 0..MaxTs]

\* ctx.Done() is closed: the deadline has passed or cancel() has run
CtxDone == deadline # "no" \/ xpc \in {"returned", "next"}

\* return start, end, err with the deferred calls: syncer.Close() once the
\* defer of line 74 is registered, then cancel()
XReturn(err, start, end) ==
    /\ ret' = [err |-> err, start |-> start, end |-> end]
    /\ xpc' = "returned"
    /\ syncer' = IF syncer = "syncing" THEN "closed" ELSE syncer

\* return time.Time{}, time.Time{}, fmt.Errorf(msg, ...)
XReturnError(msg) == XReturn(msg, 0, 0)

InitX ==
    /\ binlogFiles = <<1>>
    /\ targetTime = 0
    /\ layout = [stride |-> 0, width |-> 0]
    /\ pc = "entry"
    /\ left = 0
    /\ right = 0
    /\ errorCount = 0
    /\ validFiles = {}
    /\ timeRanges = <<>>
    /\ probes = <<>>
    /\ result = [file |-> NoFile, exactMatch |-> FALSE]
    /\ binlogFile = binlogFiles[1]
    /\ syncer = "new"
    /\ xpc = "start"
    /\ deadline = "no"
    /\ fi = 0
    /\ ev = NoEvent
    /\ firstTimestamp = 0
    /\ foundTimestamp = FALSE
    /\ lastTimestamp = 0
    /\ gpc = "none"
    /\ gi = 0
    /\ gev = 0
    /\ ret = NoRet
    /\ reads = 0
    /\ seen = 0
    /\ logged = 0
    /\ rotated = "no"

\* the timer of context.WithTimeout(context.Background(), 5*time.Second)
Deadline ==
    /\ xpc \notin {"idle", "returned", "next"}
    /\ deadline = "no"
    /\ deadline' = IF foundTimestamp THEN "late" ELSE "early"
    /\ UNCHANGED <<binlogFile, syncer, xpc, fi, ev, firstTimestamp,
                   foundTimestamp, lastTimestamp, gpc, gi, gev, ret, reads,
                   seen, logged, rotated>>
    /\ UNCHANGED searchVars

\* syncer.StartSync(...) succeeds; defer syncer.Close()
StartSyncOk ==
    /\ xpc = "start"
    /\ syncer' = "syncing"
    /\ xpc' = "select"
    /\ UNCHANGED <<binlogFile, deadline, fi, ev, firstTimestamp,
                   foundTimestamp, lastTimestamp, gpc, gi, gev, ret, reads,
                   seen, logged, rotated>>
    /\ UNCHANGED searchVars

\* syncer.StartSync(...) fails: return before the defer of line 74
StartSyncFail ==
    /\ xpc = "start"
    /\ ret' = [err |-> "failed to start sync", start |-> 0, end |-> 0]
    /\ xpc' = "returned"
    /\ syncer' = "failed"
    /\ UNCHANGED <<binlogFile, deadline, fi, ev, firstTimestamp,
                   foundTimestamp, lastTimestamp, gpc, gi, gev, reads,
                   seen, logged, rotated>>
    /\ UNCHANGED searchVars

\* first loop, select: case <-ctx.Done() returns the timeout error,
\* default goes on to streamer.GetEvent(ctx)
FirstSelect ==
    /\ xpc = "select"
    /\ IF CtxDone
         THEN XReturnError("timeout getting first event timestamp")
         ELSE /\ xpc' = "get"
              /\ UNCHANGED <<ret, syncer>>
    /\ UNCHANGED <<binlogFile, deadline, fi, ev, firstTimestamp,
                   foundTimestamp, lastTimestamp, gpc, gi, gev, reads,
                   seen, logged, rotated>>
    /\ UNCHANGED searchVars

\* slip: i <= 10, an eleventh attempt
FirstLoopPcOneMore(n) == IF n <= FirstAttempts THEN "select" ELSE "found"

\* i < 10 after i++: the next attempt, or the end of the loop
FirstLoopPc(n) == IF n < FirstAttempts THEN "select" ELSE "found"

\* the stream after the event e: it stays in the file it is in until a
\* rotate event names another file, and is in a following file from then on
Rotated(e) ==
    IF rotated # "no" THEN "before"
    ELSE IF e.type = "ROTATE_EVENT" /\ e.next # binlogFile THEN "this"
    ELSE "no"

\* the rotation check of lines 92-102: is "Detected rotation" logged
LogsRotation(e) == e.type = "ROTATE_EVENT" /\ e.next # binlogFile

\* slip: the continue of line 99 taken for every logged rotation
FirstEventSkipRotation(e) ==
    /\ logged' = IF LogsRotation(e) THEN logged + 1 ELSE logged
    /\ IF e.ts > 0 /\ ~LogsRotation(e)
         THEN /\ firstTimestamp' = e.ts
              /\ foundTimestamp' = TRUE
              /\ xpc' = "found"
              /\ UNCHANGED fi
         ELSE /\ fi' = fi + 1
              /\ xpc' = FirstLoopPc(fi + 1)
              /\ UNCHANGED <<firstTimestamp, foundTimestamp>>

\* the body of the first loop on the event e (lines 91-109)
FirstEvent(e) ==
    /\ logged' = IF LogsRotation(e) THEN logged + 1 ELSE logged
    /\ IF e.ts > 0
         THEN /\ firstTimestamp' = e.ts
              /\ foundTimestamp' = TRUE
              /\ xpc' = "found"
              /\ UNCHANGED fi
         ELSE /\ fi' = fi + 1
              /\ xpc' = FirstLoopPc(fi + 1)
              /\ UNCHANGED <<firstTimestamp, foundTimestamp>>

\* first loop: streamer.GetEvent(ctx) returns an event
FirstGetEvent ==
    /\ xpc = "get"
    /\ \E e \in Events :
          /\ ev' = e
          /\ reads' = reads + 1
          /\ seen' = IF e.ts > 0 THEN e.ts ELSE seen
          /\ rotated' = Rotated(e)
          /\ FirstEvent(e)
    /\ UNCHANGED <<binlogFile, syncer, deadline, lastTimestamp, gpc, gi, gev,
                   ret>>
    /\ UNCHANGED searchVars

\* first loop: streamer.GetEvent(ctx) returns a stream error
FirstGetError ==
    /\ xpc = "get"
    /\ XReturnError("failed to get event: stream error")
    /\ UNCHANGED <<binlogFile, deadline, fi, ev, firstTimestamp,
                   foundTimestamp, lastTimestamp, gpc, gi, gev, reads,
                   seen, logged, rotated>>
    /\ UNCHANGED searchVars

\* slip: the read is given context.Background() and is never interrupted
FirstGetNoTimeout ==
    /\ FALSE
    /\ UNCHANGED vars

\* first loop: the read is interrupted, streamer.GetEvent(ctx) returns
\* ctx.Err()
FirstGetTimeout ==
    /\ xpc = "get"
    /\ CtxDone
    /\ XReturnError("failed to get event: context deadline exceeded")
    /\ UNCHANGED <<binlogFile, deadline, fi, ev, firstTimestamp,
                   foundTimestamp, lastTimestamp, gpc, gi, gev, reads,
                   seen, logged, rotated>>
    /\ UNCHANGED searchVars

\* found: if !foundTimestamp { return ... "no events with timestamp found" }
NoTimestampFound ==
    /\ xpc = "found"
    /\ ~foundTimestamp
    /\ XReturnError("no events with timestamp found")
    /\ UNCHANGED <<binlogFile, deadline, fi, ev, firstTimestamp,
                   foundTimestamp, lastTimestamp, gpc, gi, gev, reads,
                   seen, logged, rotated>>
    /\ UNCHANGED searchVars

\* lastTimestamp = firstTimestamp; done := make(chan struct{}); go func()
StartScan ==
    /\ xpc = "found"
    /\ foundTimestamp
    /\ lastTimestamp' = firstTimestamp
    /\ gpc' = IF 0 < MaxEvents THEN "select" ELSE "exit"
    /\ gi' = 0
    /\ xpc' = "wait"
    /\ fi' = 0
    /\ ev' = NoEvent
    /\ reads' = 0
    /\ seen' = 0
    /\ logged' = 0
    /\ UNCHANGED <<binlogFile, syncer, deadline, firstTimestamp,
                   foundTimestamp, gev, ret, rotated>>
    /\ UNCHANGED searchVars

\* goroutine, select: case <-ctx.Done() returns, default goes on to
\* streamer.GetEvent(ctx)
GoSelect ==
    /\ gpc = "select"
    /\ gpc' = IF CtxDone THEN "exit" ELSE "get"
    /\ UNCHANGED <<binlogFile, syncer, xpc, deadline, fi, ev, firstTimestamp,
                   foundTimestamp, lastTimestamp, gi, gev, ret, reads, seen,
                   logged, rotated>>
    /\ UNCHANGED searchVars

\* goroutine: streamer.GetEvent(ctx) returns an event
GoGetEvent ==
    /\ gpc = "get"
    /\ \E e \in Events :
          /\ gev' = e.ts
          /\ seen' = IF e.ts > 0 THEN e.ts ELSE seen
          /\ rotated' = Rotated(e)
    /\ reads' = reads + 1
    /\ gpc' = "got"
    /\ UNCHANGED <<binlogFile, syncer, xpc, deadline, fi, ev, firstTimestamp,
                   foundTimestamp, lastTimestamp, gi, ret, logged>>
    /\ UNCHANGED searchVars

\* goroutine: streamer.GetEvent(ctx) returns a stream error (end of file or
\* other error): return
GoGetError ==
    /\ gpc = "get"
    /\ gpc' = "exit"
    /\ UNCHANGED <<binlogFile, syncer, xpc, deadline, fi, ev, firstTimestamp,
                   foundTimestamp, lastTimestamp, gi, gev, ret, reads, seen,
                   logged, rotated>>
    /\ UNCHANGED searchVars

\* goroutine: the read is interrupted, streamer.GetEvent(ctx) returns
\* ctx.Err(): return
GoGetTimeout ==
    /\ gpc = "get"
    /\ CtxDone
    /\ gpc' = "exit"
    /\ UNCHANGED <<binlogFile, syncer, xpc, deadline, fi, ev, firstTimestamp,
                   foundTimestamp, lastTimestamp, gi, gev, ret, reads, seen,
                   logged, rotated>>
    /\ UNCHANGED searchVars

\* i < 1000 after i++: the next event, or the end of the goroutine
GoLoopPc(n) == IF n < MaxEvents THEN "select" ELSE "exit"

\* goroutine: if ev.Header.Timestamp > 0 { lastTimestamp = ... }; i++
GoStore ==
    /\ gpc = "got"
    /\ lastTimestamp' = IF gev > 0 THEN gev ELSE lastTimestamp
    /\ gev' = 0
    /\ gi' = gi + 1
    /\ gpc' = GoLoopPc(gi + 1)
    /\ UNCHANGED <<binlogFile, syncer, xpc, deadline, fi, ev, firstTimestamp,
                   foundTimestamp, ret, reads, seen, logged, rotated>>
    /\ UNCHANGED searchVars

\* select at line 150, case <-done: the goroutine has returned
WaitDone ==
    /\ xpc = "wait"
    /\ gpc = "exit"
    /\ XReturn("nil", firstTimestamp, lastTimestamp)
    /\ UNCHANGED <<binlogFile, deadline, fi, ev, firstTimestamp,
                   foundTimestamp, lastTimestamp, gpc, gi, gev, reads, seen,
                   logged, rotated>>
    /\ UNCHANGED searchVars

\* slip: the deadline during the scan returned as an error
WaitTimeoutFails ==
    /\ xpc = "wait"
    /\ CtxDone
    /\ XReturnError("timeout reading events")
    /\ UNCHANGED <<binlogFile, deadline, fi, ev, firstTimestamp,
                   foundTimestamp, lastTimestamp, gpc, gi, gev, reads, seen,
                   logged, rotated>>
    /\ UNCHANGED searchVars

\* select at line 150, case <-ctx.Done(): the deadline has passed
WaitTimeout ==
    /\ xpc = "wait"
    /\ CtxDone
    /\ XReturn("nil", firstTimestamp, lastTimestamp)
    /\ UNCHANGED <<binlogFile, deadline, fi, ev, firstTimestamp,
                   foundTimestamp, lastTimestamp, gpc, gi, gev, reads, seen,
                   logged, rotated>>
    /\ UNCHANGED searchVars

\* the caller, BinarySearchBinlogs, goes on to its next probe and creates
\* the next syncer (line 211)
NextProbe ==
    /\ xpc = "returned"
    /\ xpc' = "next"
    /\ UNCHANGED <<binlogFile, syncer, deadline, fi, ev, firstTimestamp,
                   foundTimestamp, lastTimestamp, gpc, gi, gev, ret, reads,
                   seen, logged, rotated>>
    /\ UNCHANGED searchVars

NextX ==
    \/ Deadline
    \/ StartSyncOk
    \/ StartSyncFail
    \/ FirstSelect
    \/ FirstGetEvent
    \/ FirstGetError
    \/ FirstGetTimeout
    \/ NoTimestampFound
    \/ StartScan
    \/ GoSelect
    \/ GoGetEvent
    \/ GoGetTimeout
    \/ GoGetError
    \/ GoStore
    \/ WaitDone
    \/ WaitTimeout
    \/ NextProbe

SpecX == InitX /\ [][NextX]_vars

\* The Go scheduler runs every goroutine that can run and the timer fires;
\* nothing makes the server deliver an event.
FairX ==
    /\ WF_vars(Deadline)
    /\ WF_vars(StartSyncOk \/ StartSyncFail)
    /\ WF_vars(FirstSelect)
    /\ WF_vars(FirstGetTimeout)
    /\ WF_vars(NoTimestampFound)
    /\ WF_vars(StartScan)
    /\ WF_vars(GoSelect)
    /\ WF_vars(GoGetTimeout)
    /\ WF_vars(GoStore)
    /\ WF_vars(WaitDone)
    /\ WF_vars(WaitTimeout)

SpecXFair == SpecX /\ FairX

\* ------------------------------------------------------------ properties
NumFiles == Len(binlogFiles)

\* the extracted range of the file at 0-based index i
RangeAt(i) == ServerRange(binlogFiles[i + 1])

\* every extraction issued so far succeeded
AllExtracted == \A k \in DOMAIN probes : probes[k].ok

\* the ranges of the list are non-overlapping and monotonically increasing
Increasing ==
    \A i \in 0..(NumFiles - 2) : RangeAt(i).end < RangeAt(i + 1).start

Returned(f, exact) ==
    /\ pc = "done"
    /\ result = [file |-> f, exactMatch |-> exact]

\* C1: with increasing, non-overlapping ranges and every extraction
\* succeeding, a target within the range of the file at index i makes the
\* search return (binlogFiles[i], true), for every i and every list length.
C1_ExactForContainedTarget ==
    (pc = "done" /\ AllExtracted /\ Increasing)
       => \A i \in 0..(NumFiles - 1) :
             (RangeAt(i).start <= targetTime /\ targetTime <= RangeAt(i).end)
                => Returned(binlogFiles[i + 1], TRUE)

C1_Witness ==
    /\ pc = "done" /\ AllExtracted /\ Increasing
    /\ NumFiles >= 5
    /\ Len(probes) >= 3
    /\ targetTime = RangeAt(NumFiles - 2).start
    /\ Returned(binlogFiles[NumFiles - 1], TRUE)

\* C2: with increasing, non-overlapping ranges and every extraction
\* succeeding, a target after the end of the last file makes the search
\* return (last file, false), and the last file has been probed and cached
\* when the loop has ended.
C2_LastForLateTarget ==
    (/\ pc \in {"fallback", "done"}
     /\ NumFiles >= 1 /\ AllExtracted /\ Increasing
     /\ targetTime > RangeAt(NumFiles - 1).end)
       => /\ binlogFiles[NumFiles] \in validFiles
          /\ \E k \in DOMAIN probes :
                probes[k].file = binlogFiles[NumFiles] /\ probes[k].extracted
          /\ pc = "done" => Returned(binlogFiles[NumFiles], FALSE)

C2_Witness ==
    /\ pc = "done" /\ AllExtracted /\ Increasing
    /\ NumFiles >= 5
    /\ targetTime > RangeAt(NumFiles - 1).end
    /\ Cardinality(validFiles) >= 3
    /\ Returned(binlogFiles[NumFiles], FALSE)

\* C3: with increasing, non-overlapping ranges and every extraction
\* succeeding, a target before the start of the first file of a non-empty
\* list makes the search return (binlogFiles[0], false).
C3_FirstForEarlyTarget ==
    (/\ pc = "done"
     /\ NumFiles >= 1 /\ AllExtracted /\ Increasing
     /\ targetTime < RangeAt(0).start)
       => Returned(binlogFiles[1], FALSE)

C3_Witness ==
    /\ pc = "done" /\ AllExtracted /\ Increasing
    /\ NumFiles >= 5
    /\ targetTime < RangeAt(0).start
    /\ Cardinality(validFiles) >= 3
    /\ Returned(binlogFiles[1], FALSE)

\* C4: for a list of one file S the search returns exactMatch = true iff the
\* extraction of S succeeded and start(S) <= target <= end(S); in every case
\* the file returned is S.
C4_SingleFile ==
    (pc = "done" /\ NumFiles = 1)
       => /\ result.file = binlogFiles[1]
          /\ Len(probes) = 1
          /\ result.exactMatch <=>
                /\ probes[1].ok
                /\ probes[1].start <= targetTime
                /\ targetTime <= probes[1].end

C4_Witness ==
    /\ pc = "done" /\ NumFiles = 1
    /\ probes[1].ok
    /\ layout.width > 0
    /\ targetTime = probes[1].end
    /\ Returned(binlogFiles[1], TRUE)

\* C5: for an empty list the search returns ("", false) and no range
\* extraction is ever issued.
C5_EmptyList ==
    NumFiles = 0
       => /\ probes = <<>>
          /\ pc = "done" => Returned(NoFile, FALSE)

C5_Witness ==
    /\ NumFiles = 0
    /\ targetTime > 0
    /\ Returned(NoFile, FALSE)

\* f is an answer drawn from the cached ranges alone: a cached file ending
\* at or before the target that no other such cached file ends after, or
\* the first file of the list when no cached file ends at or before the target
FromCache(f) ==
    LET ends == { g \in validFiles : timeRanges[g].end <= targetTime }
    IN  IF ends # {}
          THEN /\ f \in ends
               /\ \A g \in ends : timeRanges[g].end <= timeRanges[f].end
          ELSE f = binlogFiles[1]

\* C6: once more than 3 extractions have failed in a search over two or
\* more files no further extraction (or cache lookup) is issued, and the
\* search returns a file of the list with exactMatch = false that is
\* computed from the ranges cached so far.
C6_StopsAfterTooManyErrors ==
    /\ [](errorCount > 3 =>
            /\ NumFiles >= 2
            /\ pc \in {"fallback", "done"}
            /\ pc = "done" =>
                  /\ result.file \in Files
                  /\ ~result.exactMatch
                  /\ FromCache(result.file))
    /\ [][errorCount > 3 => (probes' = probes /\ timeRanges' = timeRanges)]_vars

C6_Witness ==
    /\ pc = "done"
    /\ errorCount > 3
    /\ validFiles # {}
    /\ Cardinality({ probes[k].file : k \in DOMAIN probes }) = 5
    /\ result.file \in Files

DistinctNames ==
    \A i, j \in DOMAIN binlogFiles : i # j => binlogFiles[i] # binlogFiles[j]

Preceding == { i \in 0..(NumFiles - 1) : RangeAt(i).end <= targetTime }

\* C8: with increasing, non-overlapping ranges and every extraction
\* succeeding, a result with exactMatch = false names the file of the whole
\* list with the largest index that ends at or before the target, or
\* binlogFiles[0] when no file of the list does.
C8_ClosestPreceding ==
    (/\ pc = "done" /\ NumFiles >= 1 /\ AllExtracted /\ Increasing
     /\ ~result.exactMatch)
       => IF Preceding = {}
            THEN result.file = binlogFiles[1]
            ELSE \E i \in Preceding :
                    /\ \A k \in Preceding : k <= i
                    /\ result.file = binlogFiles[i + 1]
                    /\ binlogFiles[i + 1] \in validFiles

C8_Witness ==
    /\ pc = "done" /\ AllExtracted /\ Increasing
    /\ NumFiles >= 5
    /\ \E i \in 1..(NumFiles - 2) :
          /\ RangeAt(i).end < targetTime
          /\ targetTime < RangeAt(i + 1).start
          /\ Returned(binlogFiles[i + 1], FALSE)
          /\ probes[Len(probes)].file # binlogFiles[i + 1]

\* C9: under any pattern of extraction failures, exactMatch = true is only
\* returned for a file that was successfully extracted in this search and
\* whose extracted range contains the target.
C9_ExactIsContained ==
    (pc = "done" /\ result.exactMatch)
       => /\ result.file \in validFiles
          /\ \E k \in DOMAIN probes :
                /\ probes[k].file = result.file
                /\ probes[k].extracted /\ probes[k].ok
                /\ probes[k].start <= targetTime
                /\ targetTime <= probes[k].end
                /\ timeRanges[result.file] =
                      [start |-> probes[k].start, end |-> probes[k].end]

C9_Witness ==
    /\ pc = "done" /\ result.exactMatch
    /\ errorCount >= 2
    /\ ~Increasing
    /\ result.file \in validFiles

\* C10: for a non-empty list the file returned is an element of the list,
\* for every target and every pattern of extraction failures; the empty
\* name is returned for the empty list only.
C10_ResultInList ==
    pc = "done"
       => /\ NumFiles >= 1 => result.file \in Files
          /\ result.file = NoFile <=> NumFiles = 0

C10_Witness ==
    /\ pc = "done" /\ NumFiles >= 2
    /\ validFiles = {}
    /\ errorCount >= 1
    /\ result.file = binlogFiles[1]

\* C15: when the loop ends without an exact match the result is, among the
\* files cached in this search, one with the latest end that is at or before
\* the target, with exactMatch = false; when no cached file ends at or
\* before the target, or nothing was cached, it is (binlogFiles[0], false).
C15_FallbackRule ==
    /\ [](pc = "fallback" => NumFiles >= 2)
    /\ [][pc = "fallback" =>
            /\ pc' = "done"
            /\ ~result'.exactMatch
            /\ LET ends == { g \in validFiles : timeRanges[g].end <= targetTime }
               IN  IF ends = {}
                     THEN result'.file = binlogFiles[1]
                     ELSE /\ result'.file \in ends
                          /\ \A g \in ends :
                                timeRanges[g].end <= timeRanges[result'.file].end]_vars

C15_Witness ==
    /\ pc = "done" /\ NumFiles >= 2
    /\ ~result.exactMatch
    /\ errorCount >= 1
    /\ Cardinality(validFiles) >= 2
    /\ result.file \in validFiles
    /\ \E g \in validFiles : timeRanges[g].end < timeRanges[result.file].end

\* the last lookup recorded
LastProbe == probes[Len(probes)]

\* C16: a failed extraction at index mid increments the failure counter; up
\* to the third failure the search goes on with right = mid - 1 when
\* mid > 0 and left = mid + 1 when mid = 0, so that no index >= mid is probed
\* after a failure at mid > 0; the loop is left exactly at the fourth failure.
C16_FailureNarrowsLeft ==
    /\ [](pc = "loop" => errorCount <= 3)
    /\ [](\A j, k \in DOMAIN probes :
             (j < k /\ ~probes[j].ok /\ probes[j].index > 0)
                => probes[k].index < probes[j].index)
    /\ [][(pc = "loop" /\ Len(probes') = Len(probes) + 1 /\ ~LastProbe'.ok)
             => /\ errorCount' = errorCount + 1
                /\ LastProbe'.index = left + ((right - left) \div 2)
                /\ IF errorCount' > 3
                     THEN pc' = "fallback" /\ left' = left /\ right' = right
                     ELSE /\ pc' = (IF left' <= right' THEN "loop" ELSE "fallback")
                          /\ IF LastProbe'.index > 0
                               THEN right' = LastProbe'.index - 1 /\ left' = left
                               ELSE left' = 1 /\ right' = right]_vars
    /\ [][errorCount' # errorCount
             => (pc' = "loop" /\ errorCount' = 0)
                \/ (Len(probes') = Len(probes) + 1 /\ ~LastProbe'.ok)]_vars

C16_Witness ==
    /\ pc = "fallback"
    /\ errorCount = 4
    /\ Len(probes) = 4
    /\ probes[1].index > 0
    /\ probes[3].index = 0
    /\ probes[4].index = 1

\* --------------------------------- properties of GetTimeRangeForBinlog
HasReturned == xpc \in {"returned", "next"}

\* C11: every range returned without error has start <= end, whatever
\* events the stream delivers.
C11_StartNotAfterEnd ==
    (HasReturned /\ ret.err = "nil") => ret.start <= ret.end

\* C12: every call returns, also when the stream delivers nothing more: a
\* blocked read is interrupted by the deadline, and an interrupted read of
\* the first phase, like every return without a timestamp, is an error.
C12_AlwaysReturns ==
    /\ <>HasReturned
    /\ []((HasReturned /\ ~foundTimestamp) => ret.err # "nil")
    /\ [][(xpc = "get" /\ xpc' = "returned" /\ reads' = reads)
             => ret'.err # "nil"]_vars

C12_Witness ==
    /\ xpc = "returned"
    /\ deadline = "early"
    /\ reads = 0
    /\ ret.err = "failed to get event: context deadline exceeded"

\* C13: when the caller opens the session of its next probe, the session of
\* this call is released and no reader is still using its stream.
C13_OneSessionAtATime ==
    xpc = "next" => (syncer # "syncing" /\ gpc \in {"none", "exit"})

\* C14: the syncer of a call is closed on every exit path of the call.
C14_ClosedOnEveryExit ==
    HasReturned => syncer = "closed"

\* C17: the first phase reads at most 10 events and skips those without a
\* timestamp; start is the timestamp of the first event that has one; when
\* none of the 10 events has one the extraction fails.
C17_FirstPhase ==
    /\ [](xpc \in {"select", "get", "found"} =>
            /\ reads <= 10
            /\ (xpc = "get" => reads < 10)
            /\ (~foundTimestamp => (seen = 0 /\ fi = reads))
            /\ (foundTimestamp =>
                  (xpc = "found" /\ seen > 0 /\ firstTimestamp = seen
                     /\ ev.ts = seen /\ fi = reads - 1)))
    /\ []((xpc = "found" /\ ~foundTimestamp) => reads = 10)
    /\ [][(xpc = "found" /\ ~foundTimestamp /\ xpc' # xpc)
             => (xpc' = "returned" /\ ret'.err # "nil")]_vars
    /\ [][foundTimestamp => firstTimestamp' = firstTimestamp]_vars
    /\ []((HasReturned /\ ret.err = "nil")
             => (foundTimestamp /\ ret.start = firstTimestamp))

C17_Witness ==
    /\ xpc = "found"
    /\ foundTimestamp
    /\ reads = 10
    /\ fi = 9
    /\ firstTimestamp = ev.ts

\* C18: the value returned as end is the timestamp of the most recent event
\* with a timestamp among those read after start was recorded (start when
\* there is none); at most 1000 such events are read and a stream error
\* ends the scan without failing the extraction.
C18_EndIsLastRead ==
    /\ [](xpc = "wait" => reads <= 1000)
    /\ [][(xpc = "wait" /\ xpc' = "returned")
             => /\ ret'.err = "nil"
                /\ ret'.end = (IF seen = 0 THEN firstTimestamp ELSE seen)]_vars

C20_RotationNotFatal ==
    [][(xpc = "get" /\ reads' = reads + 1
          /\ ev'.type = "ROTATE_EVENT" /\ ev'.next # binlogFile)
          => /\ logged' = logged + 1
             /\ ret' = ret
             /\ IF ev'.ts > 0
                  THEN /\ foundTimestamp'
                       /\ firstTimestamp' = ev'.ts
                       /\ xpc' = "found"
                  ELSE /\ ~foundTimestamp'
                       /\ fi' = fi + 1
                       /\ xpc' = (IF fi + 1 < 10 THEN "select" ELSE "found")]_vars

C20_Witness ==
    /\ xpc = "found"
    /\ foundTimestamp
    /\ reads >= 2
    /\ logged = reads
    /\ ev.type = "ROTATE_EVENT"
    /\ ev.next # binlogFile
    /\ firstTimestamp = ev.ts

\* --------------------------------------- termination of the search loop
\* floor(log2(n)) for n >= 1
RECURSIVE Log2(_)
Log2(n) == IF n <= 1 THEN 0 ELSE 1 + Log2(n \div 2)

\* the number of calls of GetTimeRangeForBinlog made so far
Extractions == Cardinality({ k \in DOMAIN probes : probes[k].extracted })

\* C21 as stated: once the loop over n >= 2 files has started, left and
\* right both stay within 0..n-1 and left <= right + 1.
C21_IndicesInList ==
    (NumFiles >= 2 /\ pc # "entry")
       => /\ 0 <= left /\ left <= NumFiles - 1
          /\ 0 <= right /\ right <= NumFiles - 1
          /\ left <= right + 1

\* C21 amended: the search over n >= 2 files terminates; at the top of
\* every iteration 0 <= left <= mid <= right <= n-1; an iteration returns,
\* or breaks on the fourth failure, or strictly shrinks [left, right]; left
\* never exceeds n, right never falls below -1 and left <= right + 1; at
\* most floor(log2(n)) + 1 extractions are made.
C21_LoopTerminates ==
    /\ <>(pc = "done")
    /\ [](pc = "loop" =>
            /\ NumFiles >= 2
            /\ 0 <= left /\ left <= Mid /\ Mid <= right
            /\ right <= NumFiles - 1)
    /\ []((NumFiles >= 2 /\ pc # "entry") =>
            /\ 0 <= left /\ left <= NumFiles
            /\ -1 <= right /\ right <= NumFiles - 1
            /\ left <= right + 1)
    /\ [][pc = "loop" =>
            \/ pc' = "done" /\ left' = left /\ right' = right
            \/ /\ pc' = "fallback" /\ errorCount' > 3
               /\ left' = left /\ right' = right
            \/ /\ left <= left' /\ right' <= right
               /\ right' - left' < right - left
               /\ pc' = (IF left' <= right' THEN "loop" ELSE "fallback")]_vars
    /\ [](NumFiles >= 2 => Extractions <= Log2(NumFiles) + 1)

C21_Witness ==
    /\ pc = "done"
    /\ NumFiles = 16
    /\ left = NumFiles
    /\ right = NumFiles - 1
    /\ Extractions = Log2(NumFiles) + 1

\* C22: the result is determined by the list, the target and the extraction
\* outcomes: when the fallback returns a valid file ending at or before the
\* target, no other valid file ends at the same time, so that the order in
\* which validFiles is iterated cannot change the file returned.
C22_ResultDetermined ==
    (/\ pc = "done" /\ ~result.exactMatch
     /\ result.file \in validFiles
     /\ timeRanges[result.file].end <= targetTime)
       => \A g \in validFiles :
             g # result.file
                => timeRanges[g].end # timeRanges[result.file].end

\* C23: when the function has read lastTimestamp and returned, the reading
\* goroutine is neither inside streamer.GetEvent nor holding an event whose
\* timestamp it has still to store into lastTimestamp.
C23_ReaderQuietAtReturn ==
    HasReturned => gpc \notin {"get", "got"}

\* C24: the timestamp of an event the stream delivers after a rotate event
\* naming another file becomes neither start (first phase) nor end (the
\* store of the goroutine) of the range of the file being read.
C24_OnlyOwnEvents ==
    /\ [][(xpc = "get" /\ reads' = reads + 1 /\ rotated # "no")
             => (~foundTimestamp' /\ firstTimestamp' = firstTimestamp)]_vars
    /\ [][(gpc = "got" /\ rotated = "before")
             => lastTimestamp' = lastTimestamp]_vars

====
